---- MODULE Spec2Model ----
(***************************************************************************)
(* A model of the two command-line tools of the repository:                *)
(*   tools/code_analysis.py     the pattern-based issue scanner            *)
(*   tools/find_dependencies.py the project-dependency lister              *)
(*                                                                         *)
(* Strings that the code takes apart (paths, file names, extensions) are   *)
(* sequences of one-character strings, so that `in`, endswith, replace,    *)
(* splitext, basename, dirname and join are computed character by          *)
(* character.  Strings that the code only copies and compares (issue       *)
(* types, descriptions, severities) are TLA+ strings.                      *)
(***************************************************************************)
EXTENDS Integers, Sequences, FiniteSets, TLC

VARIABLES
    prog,                \* sys.argv[0]: the executable, or the function called on its own
    argv,                \* sys.argv: a sequence of strings
    fs,                  \* the file system: [dirs, files, order]
    pc,                  \* position of the run
    stack,               \* os.walk: the directories still to be yielded
    visited,             \* the directories os.walk has yielded
    all_issues,          \* scan_directory: all_issues; print_issues_summary: issues
    grouped,             \* the values of the three group_issues_by_* functions
    out,                 \* standard output, one record per printed line
    exitcode,            \* the process exit code, -1 while running
    result,              \* the value of the function under test
    csproj_files,        \* analyze_dependencies: the manifests still to extract
    project_packages,    \* analyze_dependencies: dict name -> package references
    project_references,  \* analyze_dependencies: dict name -> project references
    project_directories, \* analyze_dependencies: dict name -> directory
    analyzed             \* analyze_dependencies: position in project_directories.items()

vars == <<prog, argv, fs, pc, stack, visited, all_issues, grouped, out, exitcode,
          result, csproj_files, project_packages, project_references,
          project_directories, analyzed>>

----------------------------------------------------------------------------
(* Strings as character sequences.                                          *)

SLASH == "/"
DOT == "."

RECURSIVE Find(_, _, _)
\* str.find(sub, start): the first index >= i where sub occurs in s, 0 if none
Find(s, sub, i) ==
    IF i + Len(sub) - 1 > Len(s) THEN 0
    ELSE IF SubSeq(s, i, i + Len(sub) - 1) = sub THEN i
    ELSE Find(s, sub, i + 1)

\* `sub in s`
Contains(s, sub) == Find(s, sub, 1) # 0

\* s.endswith(suf)
EndsWith(s, suf) ==
    /\ Len(suf) <= Len(s)
    /\ SubSeq(s, Len(s) - Len(suf) + 1, Len(s)) = suf

RECURSIVE Replace(_, _)
\* s.replace(old, ''): every non-overlapping occurrence removed, left to right
Replace(s, old) ==
    LET i == Find(s, old, 1)
    IN  IF i = 0 THEN s
        ELSE SubSeq(s, 1, i - 1) \o Replace(SubSeq(s, i + Len(old), Len(s)), old)

RECURSIVE RFind(_, _, _)
\* s.rfind(c) over s[1..i]: the last index of character c, 0 if none
RFind(s, c, i) ==
    IF i = 0 THEN 0 ELSE IF s[i] = c THEN i ELSE RFind(s, c, i - 1)

LowerChar(c) ==
    CASE c = "A" -> "a" [] c = "B" -> "b" [] c = "C" -> "c" [] c = "S" -> "s"
      [] c = "T" -> "t" [] c = "X" -> "x" [] OTHER -> c

\* s.lower()
Lower(s) == [i \in 1..Len(s) |-> LowerChar(s[i])]

\* severity.upper() on the three severities
Upper(sev) ==
    CASE sev = "high" -> "HIGH" [] sev = "medium" -> "MEDIUM"
      [] sev = "low" -> "LOW" [] OTHER -> sev

\* os.path.join(a, b) on POSIX
Join(a, b) ==
    IF b # <<>> /\ b[1] = SLASH THEN b
    ELSE IF a = <<>> \/ a[Len(a)] = SLASH THEN a \o b
    ELSE a \o <<SLASH>> \o b

\* os.path.basename(p): what follows the last slash
Basename(p) == SubSeq(p, RFind(p, SLASH, Len(p)) + 1, Len(p))

RECURSIVE RStripSlash(_)
RStripSlash(s) ==
    IF s # <<>> /\ s[Len(s)] = SLASH THEN RStripSlash(SubSeq(s, 1, Len(s) - 1)) ELSE s

\* os.path.dirname(p): the head up to the last slash, trailing slashes stripped
\* unless the head is slashes only
Dirname(p) ==
    LET head == SubSeq(p, 1, RFind(p, SLASH, Len(p)))
    IN  IF RStripSlash(head) = <<>> THEN head ELSE RStripSlash(head)

RECURSIVE FirstNonDot(_, _, _)
\* splitext's scan over the leading dots of the file name: an index in i..j-1
\* holding another character, 0 if none
FirstNonDot(p, i, j) ==
    IF i >= j THEN 0 ELSE IF p[i] # DOT THEN i ELSE FirstNonDot(p, i + 1, j)

\* os.path.splitext(p)[1]: from the last dot of the last component to the end,
\* empty when that component has no dot after a leading run of dots
SplitExt(p) ==
    LET sep == RFind(p, SLASH, Len(p))
        dot == RFind(p, DOT, Len(p))
    IN  IF dot > sep /\ FirstNonDot(p, sep + 1, dot) # 0
        THEN SubSeq(p, dot, Len(p))
        ELSE <<>>

----------------------------------------------------------------------------
(* The file system.  fs.dirs is the set of directory paths, fs.files the    *)
(* set of files, fs.order the order in which a directory listing returns    *)
(* names (os.walk leaves it to the operating system).                       *)

IsDir(p) == p \in fs.dirs
FilesAt(p) == {f \in fs.files : f.path = p}
IsFile(p) == FilesAt(p) # {}
FileAt(p) == CHOOSE f \in FilesAt(p) : TRUE

\* the names of a listing that satisfy Test, in listing order
Listing(top, Test(_)) ==
    SelectSeq(fs.order, LAMBDA n : Test(Join(top, n)))

\* one os.walk step: (root, dirs, files) of directory top
WalkEntry(top) ==
    [root  |-> top,
     dirs  |-> Listing(top, IsDir),
     files |-> Listing(top, IsFile)]

\* the paths os.walk goes on to, children before the directories already pending
Descend(top, dirs, pending) ==
    [i \in 1..Len(dirs) |-> Join(top, dirs[i])] \o pending

----------------------------------------------------------------------------
(* tools/code_analysis.py                                                   *)

\* scan_file: the path parts that make a file ignored
IgnoredParts ==
    { <<"o","b","j","/">>, <<"b","i","n","/">>, <<".","v","s","/">>,
      <<"n","o","d","e","_","m","o","d","u","l","e","s","/">> }

\* scan_file: the extensions analysed
Extensions ==
    { <<".","c","s">>, <<".","p","y">>, <<".","j","s">>, <<".","j","s","o","n">>,
      <<".","x","m","l">>, <<".","c","s","p","r","o","j">> }

\* scan_directory: the directory names not descended into
IgnoredDirs ==
    { <<"o","b","j">>, <<"b","i","n">>, <<".","v","s">>,
      <<"n","o","d","e","_","m","o","d","u","l","e","s">> }

\* The catalog, in the order of the source.  The regular expression of rule r is
\* not interpreted: a line of text is modelled by the set of rule numbers whose
\* expression finds a match in it, which is all that pattern.search(line) tells
\* scan_file.
patterns ==
    << [issue_type |-> "exception_usage",     severity |-> "medium",
        description |-> "Using generic Exception instead of specific exception type"],
       [issue_type |-> "exception_handling",  severity |-> "medium",
        description |-> "Catching generic Exception"],
       [issue_type |-> "async_antipattern",   severity |-> "high",
        description |-> "Using .Result instead of await"],
       [issue_type |-> "async_antipattern",   severity |-> "high",
        description |-> "Using .Wait() instead of await"],
       [issue_type |-> "logging",             severity |-> "medium",
        description |-> "Using Console.Write instead of proper logging"],
       [issue_type |-> "string_formatting",   severity |-> "low",
        description |-> "Using string.Format instead of string interpolation"],
       [issue_type |-> "collections",         severity |-> "low",
        description |-> "Consider using collection initializers"],
       [issue_type |-> "todo",                severity |-> "low",
        description |-> "TODO comment found"],
       [issue_type |-> "hack",                severity |-> "medium",
        description |-> "HACK comment found"],
       [issue_type |-> "fixme",               severity |-> "high",
        description |-> "FIXME comment found"],
       [issue_type |-> "naming",              severity |-> "medium",
        description |-> "Public field not following naming conventions"],
       [issue_type |-> "null_safety",         severity |-> "medium",
        description |-> "Using null-forgiving operator (!)"],
       [issue_type |-> "null_safety",         severity |-> "medium",
        description |-> "Using null-forgiving operator (!)"],
       [issue_type |-> "null_coalescing",     severity |-> "low",
        description |-> "Using ?? throw pattern"],
       [issue_type |-> "documentation",       severity |-> "low",
        description |-> "Empty summary documentation"],
       [issue_type |-> "documentation",       severity |-> "low",
        description |-> "Empty parameter documentation"],
       [issue_type |-> "security",            severity |-> "high",
        description |-> "Possible hardcoded credentials"],
       [issue_type |-> "security",            severity |-> "high",
        description |-> "Possible hardcoded credentials"],
       [issue_type |-> "security",            severity |-> "high",
        description |-> "Possible hardcoded MongoDB credentials"],
       [issue_type |-> "di",                  severity |-> "medium",
        description |-> "Creating service directly instead of using DI"],
       [issue_type |-> "di",                  severity |-> "medium",
        description |-> "Creating repository directly instead of using DI"],
       [issue_type |-> "async_without_await", severity |-> "medium",
        description |-> "Async method without await"],
       [issue_type |-> "security",            severity |-> "high",
        description |-> "Possible hardcoded secret in JSON configuration"] >>

\* pattern.search(line) for rule r
Search(r, line) == r \in line

\* the Issue that rule r gives on a line
Issue(filepath, line_number, r) ==
    [filepath    |-> filepath,
     line_number |-> line_number,
     issue_type  |-> patterns[r].issue_type,
     description |-> patterns[r].description,
     severity    |-> patterns[r].severity]

RECURSIVE MatchFrom(_, _, _, _)
\* the loop over compiled_patterns for one line, from rule r on
MatchFrom(filepath, line_number, line, r) ==
    IF r > Len(patterns) THEN <<>>
    ELSE (IF Search(r, line) THEN <<Issue(filepath, line_number, r)>> ELSE <<>>)
         \o MatchFrom(filepath, line_number, line, r + 1)

RECURSIVE FirstMatchFrom(_, _, _, _)
\* MatchFrom leaving the rule loop at the first match
FirstMatchFrom(filepath, line_number, line, r) ==
    IF r > Len(patterns) THEN <<>>
    ELSE IF Search(r, line) THEN <<Issue(filepath, line_number, r)>>
    ELSE FirstMatchFrom(filepath, line_number, line, r + 1)

\* MatchLine losing every match but the first
MatchLineFirstOnly(filepath, line_number, line) ==
    FirstMatchFrom(filepath, line_number, line, 1)

\* the body of `for i, line in enumerate(f)`
MatchLine(filepath, line_number, line) ==
    MatchFrom(filepath, line_number, line, 1)

RECURSIVE ScanLines(_, _, _)
\* the loop over the lines of the open file, from index i (0-based) on
ScanLines(filepath, lines, i) ==
    IF i >= Len(lines) THEN <<>>
    ELSE MatchLine(filepath, i + 1, lines[i + 1]) \o ScanLines(filepath, lines, i + 1)

Returned(issues) == [raised |-> FALSE, issues |-> issues]
Raised == [raised |-> TRUE, issues |-> <<>>]

\* scan_file(filepath): the list returned, or the exception of open()
scan_file(filepath) ==
    IF ~(IsFile(filepath) \/ IsDir(filepath)) \/ ~IsFile(filepath)
    THEN Returned(<<>>)
    ELSE IF \E part \in IgnoredParts : Contains(filepath, part)
    THEN Returned(<<>>)
    ELSE IF Lower(SplitExt(filepath)) \notin Extensions
    THEN Returned(<<>>)
    ELSE IF ~FileAt(filepath).readable
    THEN Raised
    ELSE Returned(ScanLines(filepath, FileAt(filepath).lines, 0))

\* Prune with 'bin' missing from the list
PruneWithoutBin(dirs) ==
    SelectSeq(dirs, LAMBDA d : d \notin (IgnoredDirs \ {<<"b","i","n">>}))

\* scan_directory: dirs[:] = [d for d in dirs if d not in [...]]
Prune(dirs) == SelectSeq(dirs, LAMBDA d : d \notin IgnoredDirs)

RECURSIVE ScanFiles(_, _, _)
\* scan_directory: the loop over the files of one directory, from index i on;
\* an exception of scan_file leaves the loop
ScanFiles(root, files, i) ==
    IF i > Len(files) THEN Returned(<<>>)
    ELSE LET issues == scan_file(Join(root, files[i]))
         IN  IF issues.raised THEN Raised
             ELSE LET rest == ScanFiles(root, files, i + 1)
                  IN  IF rest.raised THEN Raised
                      ELSE Returned(issues.issues \o rest.issues)

\* dictionaries keep insertion order: a sequence of [key, val]
Keys(d) == {d[i].key : i \in 1..Len(d)}
Get(d, k) == d[CHOOSE i \in 1..Len(d) : d[i].key = k].val
Put(d, k, v) ==
    IF k \in Keys(d)
    THEN [i \in 1..Len(d) |-> IF d[i].key = k THEN [key |-> k, val |-> v] ELSE d[i]]
    ELSE Append(d, [key |-> k, val |-> v])

\* grouped[key] = [issue]: the group replaced instead of extended
AssignTo(d, k, issue) == Put(d, k, <<issue>>)

\* grouped[key].append(issue) on a defaultdict(list)
AppendTo(d, k, issue) ==
    Put(d, k, (IF k \in Keys(d) THEN Get(d, k) ELSE <<>>) \o <<issue>>)

RECURSIVE GroupBy(_, _, _, _)
\* the loop of the three group_issues_by_* functions, from index i on
GroupBy(issues, KeyOf(_), d, i) ==
    IF i > Len(issues) THEN d
    ELSE GroupBy(issues, KeyOf, AppendTo(d, KeyOf(issues[i]), issues[i]), i + 1)

group_issues_by_type(issues) ==
    GroupBy(issues, LAMBDA x : x.issue_type, <<>>, 1)

group_issues_by_severity(issues) ==
    GroupBy(issues, LAMBDA x : x.severity, <<>>, 1)

group_issues_by_file(issues) ==
    GroupBy(issues, LAMBDA x : x.filepath, <<>>, 1)

\* one printed line
Line(k, path, n, text) == [k |-> k, path |-> path, n |-> n, text |-> text]

RECURSIVE InsertByLen(_, _)
\* x put into s, sorted by descending len(val), behind the items as long as x
InsertByLen(s, x) ==
    IF s = <<>> THEN <<x>>
    ELSE IF Len(Head(s).val) >= Len(x.val) THEN <<Head(s)>> \o InsertByLen(Tail(s), x)
    ELSE <<x>> \o s

RECURSIVE SortedByLen(_, _)
\* sorted(d.items(), key=lambda x: len(x[1]), reverse=True): stable
SortedByLen(d, n) ==
    IF n = 0 THEN <<>> ELSE InsertByLen(SortedByLen(d, n - 1), d[n])

\* print_issues_summary: the number of high severity issues listed
HighLimit == 10

\* print_issues_summary: the number of files listed
TopFiles == 10

RECURSIVE HighLinesOffByOne(_, _)
\* HighLines with the limit tested by > instead of >=
HighLinesOffByOne(high, i) ==
    IF i >= Len(high) THEN <<>>
    ELSE IF i > HighLimit
    THEN <<Line("more", <<>>, Len(high) - HighLimit, "")>>
    ELSE <<Line("high", high[i + 1].filepath, high[i + 1].line_number,
                high[i + 1].description)>>
         \o HighLinesOffByOne(high, i + 1)

RECURSIVE HighLines(_, _)
\* print_issues_summary: the loop over enumerate(by_severity['high']), from i on
HighLines(high, i) ==
    IF i >= Len(high) THEN <<>>
    ELSE IF i >= HighLimit
    THEN <<Line("more", <<>>, Len(high) - HighLimit, "")>>
    ELSE <<Line("high", high[i + 1].filepath, high[i + 1].line_number,
                high[i + 1].description)>>
         \o HighLines(high, i + 1)

Groupings(issues) ==
    [by_severity |-> group_issues_by_severity(issues),
     by_type     |-> group_issues_by_type(issues),
     by_file     |-> group_issues_by_file(issues)]

NoGroupings == [by_severity |-> <<>>, by_type |-> <<>>, by_file |-> <<>>]

\* print_issues_summary(issues): the lines printed
print_issues_summary(issues) ==
    IF issues = <<>> THEN <<Line("none", <<>>, 0, "No issues found!")>>
    ELSE
    LET by_severity == group_issues_by_severity(issues)
        types == group_issues_by_type(issues)
        files == group_issues_by_file(issues)
        by_type == SortedByLen(types, Len(types))
        by_file == SortedByLen(files, Len(files))
        levels == SelectSeq(<<"high", "medium", "low">>,
                            LAMBDA s : s \in Keys(by_severity))
    IN  <<Line("found", <<>>, Len(issues), "")>>
        \o <<Line("hdr", <<>>, 0, "By Severity:")>>
        \o [i \in 1..Len(levels) |->
              Line("severity", <<>>, Len(Get(by_severity, levels[i])), Upper(levels[i]))]
        \o <<Line("hdr", <<>>, 0, "By Issue Type:")>>
        \o [i \in 1..Len(by_type) |->
              Line("type", <<>>, Len(by_type[i].val), by_type[i].key)]
        \o (IF "high" \in Keys(by_severity)
            THEN <<Line("hdr", <<>>, 0, "High Severity Issues:")>>
                 \o HighLines(Get(by_severity, "high"), 0)
            ELSE <<>>)
        \o <<Line("hdr", <<>>, 0, "Files with Most Issues:")>>
        \o [i \in 1..(IF Len(by_file) < TopFiles THEN Len(by_file) ELSE TopFiles) |->
              Line("file", by_file[i].key, Len(by_file[i].val), "")]

----------------------------------------------------------------------------
(* The inputs.                                                              *)

N_src   == <<"s","r","c">>
N_bin   == <<"b","i","n">>
N_obj   == <<"o","b","j">>
N_robin == <<"r","o","b","i","n">>
N_a_cs  == <<"a",".","c","s">>
N_n_txt == <<"n",".","t","x","t">>
N_B_CS  == <<"B",".","C","S">>
N_p     == <<"p">>
N_nodir == <<"n","o","n","e">>

N_x_cs  == <<"x",".","c","s">>
N_App   == <<"A","p","p">>
N_Lib   == <<"L","i","b">>
CSPROJ  == <<".","c","s","p","r","o","j">>
CS      == <<".","c","s">>

\* the bounds of the model
MaxFiles == 2
MaxDepFiles == 2
MaxLines == 2
MaxGroupLen == 4
MaxIssues == 15

\* the directories of a scanned tree, relative to its root
RelDirs ==
    { <<>>, <<N_src>>, <<N_bin>>, <<N_robin>>, <<N_src, N_bin>>, <<N_src, N_robin>>,
      <<N_robin, N_src>>, <<N_bin, N_src>>, <<N_src, N_src, N_bin>> }
FileNames == {N_a_cs, N_n_txt}
Roots == {N_p, N_robin}

\* the orders in which a directory listing returns the names
Orders ==
    { <<N_src, N_bin, N_obj, N_robin, N_a_cs, N_n_txt, N_x_cs,
        N_App \o CSPROJ, N_Lib \o CSPROJ>>,
      <<N_Lib \o CSPROJ, N_App \o CSPROJ, N_x_cs, N_n_txt, N_a_cs,
        N_robin, N_obj, N_bin, N_src>> }

RECURSIVE SeqsUpTo(_, _)
\* the sequences over S of length at most n
SeqsUpTo(S, n) ==
    IF n = 0 THEN {<<>>}
    ELSE LET shorter == SeqsUpTo(S, n - 1)
         IN  shorter \cup {Append(q, x) : q \in shorter, x \in S}

RECURSIVE SetsUpTo(_, _)
\* the subsets of S of at most n elements
SetsUpTo(S, n) ==
    IF n = 0 THEN {{}}
    ELSE LET smaller == SetsUpTo(S, n - 1)
         IN  smaller \cup {q \cup {x} : q \in smaller, x \in S}

RECURSIVE JoinAll(_, _)
JoinAll(root, names) ==
    IF names = <<>> THEN root ELSE JoinAll(Join(root, Head(names)), Tail(names))

\* the directories a path lies in
Ancestors(p) == {SubSeq(p, 1, i - 1) : i \in {j \in 1..Len(p) : p[j] = SLASH}}

DirsOf(root, files) ==
    {root} \cup {d \in UNION {Ancestors(f.path) : f \in files} : Len(d) > Len(root)}

DistinctPaths(files) == \A f, g \in files : f.path = g.path => f = g

NoDoc == [ok |-> FALSE, elems |-> <<>>]

TextFile(path, readable, lines) ==
    [path |-> path, readable |-> readable, lines |-> lines, doc |-> NoDoc, usings |-> {}]

\* the lines of text: no rule, one rule, two rules, two rules of equal metadata
NoMatchLine == {}
CatchLine == {2}
ResultFixmeLine == {3, 10}
PasswordLine == {17, 18}

WalkContents == { <<CatchLine>>, <<NoMatchLine, ResultFixmeLine>> }

WalkFileChoices(root) ==
    { TextFile(Join(JoinAll(root, d), n), r, c) :
        d \in RelDirs, n \in FileNames, r \in BOOLEAN, c \in WalkContents }

InitRun(p, issues) ==
    /\ prog = p
    /\ pc = "start"
    /\ stack = <<>>
    /\ visited = {}
    /\ all_issues = issues
    /\ grouped = NoGroupings
    /\ out = <<>>
    /\ exitcode = -1
    /\ result = Returned(<<>>)
    /\ csproj_files = <<>>
    /\ project_packages = <<>>
    /\ project_references = <<>>
    /\ project_directories = <<>>
    /\ analyzed = 0

\* the command lines: the right one for every tree, the wrong ones for the
\* trees of at most one file
ArgvChoices(root, files) ==
    IF Cardinality(files) <= 1
    THEN { <<prog>>, <<prog, root>>, <<prog, root, root>>, <<prog, N_nodir>> }
    ELSE { <<prog, root>> }

InitScan ==
    /\ InitRun(<<"c","o","d","e","_","a","n","a","l","y","s","i","s",".","p","y">>, <<>>)
    /\ \E root \in Roots, order \in Orders :
         \E files \in {q \in SetsUpTo(WalkFileChoices(root), MaxFiles) : DistinctPaths(q)} :
            /\ fs = [dirs |-> DirsOf(root, files), files |-> files, order |-> order]
            /\ argv \in ArgvChoices(root, files)

\* scan_file alone: one file, and the argument its path, its directory or a
\* path that does not exist
ScanPaths ==
    { Join(JoinAll(N_p, d), n) :
        d \in {<<>>, <<N_src>>, <<N_bin>>, <<N_robin>>}, n \in {N_a_cs, N_B_CS, N_n_txt} }

ScanLineChoices == {NoMatchLine, CatchLine, ResultFixmeLine, PasswordLine}

InitScanFile ==
    /\ InitRun(<<"s","c","a","n","_","f","i","l","e">>, <<>>)
    /\ \E path \in ScanPaths, r \in BOOLEAN, c \in SeqsUpTo(ScanLineChoices, MaxLines) :
          /\ fs = [dirs  |-> DirsOf(N_p, {TextFile(path, r, c)}),
                   files |-> {TextFile(path, r, c)},
                   order |-> CHOOSE o \in Orders : TRUE]
          /\ argv \in { <<path>>, <<Dirname(path)>>, <<Join(Dirname(path), N_nodir)>> }

\* the grouping functions alone: lists of issues of two files and four rules
GroupIssueChoices ==
    { Issue(Join(JoinAll(N_p, d), N_a_cs), 1, r) : d \in {<<>>, <<N_src>>}, r \in {2, 3, 6, 10} }

InitGroup ==
    /\ fs = [dirs |-> {}, files |-> {}, order |-> <<>>]
    /\ argv = <<>>
    /\ \E issues \in SeqsUpTo(GroupIssueChoices, MaxGroupLen) :
          InitRun(<<"g","r","o","u","p">>, issues)

\* print_issues_summary alone: the issues of a file whose every line matches one
\* rule, of high (3) or low (6) severity
InitSummary ==
    /\ fs = [dirs |-> {}, files |-> {}, order |-> <<>>]
    /\ argv = <<>>
    /\ \E rules \in SeqsUpTo({3, 6}, MaxIssues) :
          InitRun(<<"s","u","m","m","a","r","y">>,
                  [i \in 1..Len(rules) |-> Issue(Join(N_p, N_a_cs), i, rules[i])])

----------------------------------------------------------------------------
(* code_analysis.py: main                                                   *)

\* main, up to the call of scan_directory
ScanMain ==
    /\ pc = "start"
    /\ IF Len(argv) # 2
       THEN /\ out' = out \o <<Line("usage", argv[1], 0, "Usage: <directory>")>>
            /\ exitcode' = 1
            /\ pc' = "exited"
            /\ stack' = stack
       ELSE IF ~IsDir(argv[2])
       THEN /\ out' = out \o <<Line("error", argv[2], 0, "Error: is not a directory")>>
            /\ exitcode' = 1
            /\ pc' = "exited"
            /\ stack' = stack
       ELSE /\ pc' = "walk"
            /\ stack' = <<argv[2]>>
            /\ UNCHANGED <<out, exitcode>>
    /\ UNCHANGED <<prog, argv, fs, visited, all_issues, grouped, result, csproj_files,
                   project_packages, project_references, project_directories, analyzed>>

\* scan_directory: one iteration of `for root, dirs, files in os.walk(directory)`;
\* an exception of scan_file is caught nowhere and ends the process
ScanWalk ==
    /\ pc = "walk"
    /\ stack # <<>>
    /\ LET e == WalkEntry(Head(stack))
           r == ScanFiles(e.root, e.files, 1)
       IN  /\ visited' = visited \cup {e.root}
           /\ IF r.raised
              THEN /\ pc' = "crashed"
                   /\ exitcode' = 1
                   /\ UNCHANGED <<stack, all_issues>>
              ELSE /\ all_issues' = all_issues \o r.issues
                   /\ stack' = Descend(e.root, Prune(e.dirs), Tail(stack))
                   /\ UNCHANGED <<pc, exitcode>>
    /\ UNCHANGED <<prog, argv, fs, grouped, out, result, csproj_files,
                   project_packages, project_references, project_directories, analyzed>>

\* main: print_issues_summary(issues) once os.walk is exhausted, and the exit
ScanReport ==
    /\ pc = "walk"
    /\ stack = <<>>
    /\ out' = out \o print_issues_summary(all_issues)
    /\ exitcode' = 0
    /\ pc' = "exited"
    /\ UNCHANGED <<prog, argv, fs, stack, visited, all_issues, grouped, result, csproj_files,
                   project_packages, project_references, project_directories, analyzed>>

NextScan == ScanMain \/ ScanWalk \/ ScanReport

SpecScan == InitScan /\ [][NextScan]_vars

----------------------------------------------------------------------------
(* The functions of code_analysis.py called on their own.                   *)

Untouched ==
    UNCHANGED <<prog, argv, fs, stack, visited, exitcode, csproj_files,
                project_packages, project_references, project_directories, analyzed>>

\* result = scan_file(filepath)
CallScanFile ==
    /\ pc = "start"
    /\ result' = scan_file(argv[1])
    /\ pc' = "returned"
    /\ UNCHANGED <<all_issues, grouped, out>>
    /\ Untouched

SpecScanFile == InitScanFile /\ [][CallScanFile]_vars

\* the three groupings of a list of issues
CallGroup ==
    /\ pc = "start"
    /\ grouped' = Groupings(all_issues)
    /\ pc' = "returned"
    /\ UNCHANGED <<all_issues, result, out>>
    /\ Untouched

SpecGroup == InitGroup /\ [][CallGroup]_vars

\* print_issues_summary(issues)
CallSummary ==
    /\ pc = "start"
    /\ out' = out \o print_issues_summary(all_issues)
    /\ pc' = "returned"
    /\ UNCHANGED <<all_issues, grouped, result>>
    /\ Untouched

SpecSummary == InitSummary /\ [][CallSummary]_vars

----------------------------------------------------------------------------
(* tools/find_dependencies.py                                               *)

\* an attribute that an element does not have: Element.get returns None
None == <<"None">>

\* `if include:`
Truthy(v) == v # None /\ v # <<>>

\* the list of subdirectories with the names in IgnoredDirs taken out
WalkDirsPruned(dirs) == SelectSeq(dirs, LAMBDA d : d \notin IgnoredDirs)

\* `for root, _, files in os.walk(...)`: the list of subdirectories is left as
\* os.walk made it
WalkDirs(dirs) == dirs

RECURSIVE os_walk(_)
\* os.walk from the pending directories on: the (root, dirs, files) it yields
os_walk(pending) ==
    IF pending = <<>> THEN <<>>
    ELSE LET e == WalkEntry(Head(pending))
         IN  <<e>> \o os_walk(Descend(e.root, WalkDirs(e.dirs), Tail(pending)))

RECURSIVE FilesEndingWith(_, _)
\* the loops of find_csproj_files and find_cs_files_in_project over what os.walk
\* yields: the paths of the files whose name ends with suffix
FilesEndingWith(walk, suffix) ==
    IF walk = <<>> THEN <<>>
    ELSE LET e == Head(walk)
             hits == SelectSeq(e.files, LAMBDA n : EndsWith(n, suffix))
         IN  [i \in 1..Len(hits) |-> Join(e.root, hits[i])]
             \o FilesEndingWith(Tail(walk), suffix)

find_csproj_files(directory) == FilesEndingWith(os_walk(<<directory>>), CSPROJ)

find_cs_files_in_project(project_dir) == FilesEndingWith(os_walk(<<project_dir>>), CS)

\* the directories os.walk yields from directory on
Walked(directory) == {os_walk(<<directory>>)[i].root : i \in 1..Len(os_walk(<<directory>>))}

get_project_name(csproj_path) == Replace(Basename(csproj_path), CSPROJ)

\* ET.parse(csproj_path) raises for a file that is not well-formed XML
ParseFails(csproj_path) ==
    ~FileAt(csproj_path).readable \/ ~FileAt(csproj_path).doc.ok

\* root.findall('.//' + tag): the elements of that tag, in document order
FindAll(csproj_path, tag) ==
    SelectSeq(FileAt(csproj_path).doc.elems, LAMBDA e : e.tag = tag)

\* extract_package_references(csproj_path): what it prints and what it returns
extract_package_references(csproj_path) ==
    IF ParseFails(csproj_path)
    THEN [printed |-> <<Line("parse_error", csproj_path, 0, "Error parsing")>>,
          val |-> <<>>]
    ELSE LET refs == FindAll(csproj_path, "PackageReference")
         IN  [printed |-> <<>>,
              val |-> [i \in 1..Len(refs) |->
                         [Include |-> refs[i].Include, Version |-> refs[i].Version]]]

\* extract_project_references(csproj_path): what it prints and what it returns
extract_project_references(csproj_path) ==
    IF ParseFails(csproj_path)
    THEN [printed |-> <<Line("parse_error", csproj_path, 0, "Error parsing")>>,
          val |-> <<>>]
    ELSE LET refs == SelectSeq(FindAll(csproj_path, "ProjectReference"),
                               LAMBDA e : Truthy(e.Include))
         IN  [printed |-> <<>>,
              val |-> [i \in 1..Len(refs) |-> Replace(Basename(refs[i].Include), CSPROJ)]]

RECURSIVE find_using_statements(_)
\* find_using_statements(cs_files): what it prints and the dictionary it
\* returns.  The usings of a file are the matches of using_regex in its lines;
\* those starting with 'static ' are skipped; a file that cannot be read gives
\* a message and an empty set
find_using_statements(cs_files) ==
    IF cs_files = <<>> THEN [printed |-> <<>>, val |-> <<>>]
    ELSE LET cs_file == Head(cs_files)
             rest == find_using_statements(Tail(cs_files))
         IN  IF ~(IsFile(cs_file) \/ IsDir(cs_file)) THEN rest
             ELSE IF ~IsFile(cs_file) \/ ~FileAt(cs_file).readable
             THEN [printed |-> <<Line("read_error", cs_file, 0, "Error reading")>>
                               \o rest.printed,
                   val |-> <<[key |-> cs_file, val |-> {}]>> \o rest.val]
             ELSE [printed |-> rest.printed,
                   val |-> <<[key |-> cs_file,
                              val |-> {u.name : u \in {v \in FileAt(cs_file).usings :
                                                          ~v.static}}]>>
                           \o rest.val]

\* the top-level namespaces of the model's files, in the order sorted() gives
SortedNamespaces == <<"Microsoft", "System">>

\* analyze_dependencies: the lines of one project, from 'Analyzing project' to
\* the namespaces
ProjectLines(project_name, project_dir) ==
    LET packages == IF project_name \in Keys(project_packages)
                    THEN Get(project_packages, project_name) ELSE <<>>
        proj_refs == IF project_name \in Keys(project_references)
                     THEN Get(project_references, project_name) ELSE <<>>
        using_statements == find_using_statements(find_cs_files_in_project(project_dir))
        all_usings == UNION {using_statements.val[i].val :
                               i \in 1..Len(using_statements.val)}
        namespaces == SelectSeq(SortedNamespaces,
                                LAMBDA ns : \E u \in all_usings : u[1] = ns)
    IN  <<Line("project", project_name, 0, "Analyzing project:")>>
        \o (IF packages # <<>>
            THEN <<Line("packages", <<>>, Len(packages), "Package Dependencies")>>
                 \o [i \in 1..Len(packages) |->
                       Line("package", packages[i].Include, 0, packages[i].Version)]
            ELSE <<Line("no_packages", <<>>, 0, "No NuGet package dependencies")>>)
        \o (IF proj_refs # <<>>
            THEN <<Line("references", <<>>, Len(proj_refs), "Project References")>>
                 \o [i \in 1..Len(proj_refs) |-> Line("reference", proj_refs[i], 0, "")]
            ELSE <<Line("no_references", <<>>, 0, "No project references")>>)
        \o using_statements.printed
        \o <<Line("hdr", <<>>, 0, "Top-level namespaces used:")>>
        \o [i \in 1..Len(namespaces) |->
              Line("namespace", <<>>,
                   Cardinality({u \in all_usings : u[1] = namespaces[i]}),
                   namespaces[i])]

\* main and the start of analyze_dependencies, up to the list of manifests
DepMain ==
    /\ pc = "start"
    /\ IF Len(argv) # 2
       THEN /\ out' = out \o <<Line("usage", argv[1], 0, "Usage: <directory>")>>
            /\ exitcode' = 1
            /\ pc' = "exited"
            /\ UNCHANGED <<csproj_files, visited>>
       ELSE IF ~IsDir(argv[2])
       THEN /\ out' = out \o <<Line("error", argv[2], 0, "Error: is not a directory")>>
            /\ exitcode' = 1
            /\ pc' = "exited"
            /\ UNCHANGED <<csproj_files, visited>>
       ELSE /\ pc' = "run"
            /\ csproj_files' = find_csproj_files(argv[2])
            /\ visited' = visited \cup Walked(argv[2])
            /\ UNCHANGED <<out, exitcode>>
    /\ UNCHANGED <<prog, argv, fs, stack, all_issues, grouped, result,
                   project_packages, project_references, project_directories, analyzed>>

\* analyze_dependencies: one iteration of `for csproj_path in csproj_files`
DepExtract ==
    /\ pc = "run"
    /\ csproj_files # <<>>
    /\ LET csproj_path == Head(csproj_files)
           project_name == get_project_name(csproj_path)
           package_refs == extract_package_references(csproj_path)
           proj_refs == extract_project_references(csproj_path)
       IN  /\ project_directories' =
                  Put(project_directories, project_name, Dirname(csproj_path))
           /\ project_packages' = Put(project_packages, project_name, package_refs.val)
           /\ project_references' = Put(project_references, project_name, proj_refs.val)
           /\ out' = out \o package_refs.printed \o proj_refs.printed
    /\ csproj_files' = Tail(csproj_files)
    /\ UNCHANGED <<prog, argv, fs, pc, stack, visited, all_issues, grouped, exitcode,
                   result, analyzed>>

\* analyze_dependencies: one iteration of
\* `for project_name, project_dir in project_directories.items()`
DepAnalyze ==
    /\ pc = "run"
    /\ csproj_files = <<>>
    /\ analyzed < Len(project_directories)
    /\ LET item == project_directories[analyzed + 1]
       IN  /\ out' = out \o ProjectLines(item.key, item.val)
           /\ visited' = visited \cup Walked(item.val)
    /\ analyzed' = analyzed + 1
    /\ UNCHANGED <<prog, argv, fs, pc, stack, all_issues, grouped, exitcode, result,
                   csproj_files, project_packages, project_references,
                   project_directories>>

\* the return of analyze_dependencies and of main
DepExit ==
    /\ pc = "run"
    /\ csproj_files = <<>>
    /\ analyzed = Len(project_directories)
    /\ pc' = "exited"
    /\ exitcode' = 0
    /\ UNCHANGED <<prog, argv, fs, stack, visited, all_issues, grouped, out, result,
                   csproj_files, project_packages, project_references,
                   project_directories, analyzed>>

\* the manifests of the model: two package references and a project reference;
\* a package reference without Version and project references with a bare
\* name, an empty Include and none; a document that is not well-formed
Elem(tag, include, version) == [tag |-> tag, Include |-> include, Version |-> version]

DocTwoPackagesOneReference ==
    [ok |-> TRUE,
     elems |-> << Elem("PropertyGroup", None, "None"),
                  Elem("PackageReference", <<"J","s","o","n">>, "13.0.1"),
                  Elem("PackageReference", <<"S","e","r","i","l","o","g">>, "2.10"),
                  Elem("ProjectReference",
                       <<".",".","/","L","i","b","/">> \o N_Lib \o CSPROJ, "None") >>]

DocSparse ==
    [ok |-> TRUE,
     elems |-> << Elem("ProjectReference", None, "None"),
                  Elem("PackageReference", <<"M","o","q">>, "None"),
                  Elem("ProjectReference", <<>>, "None"),
                  Elem("ProjectReference", <<"C","o","r","e">> \o CSPROJ, "None") >>]

Malformed == [ok |-> FALSE, elems |-> <<>>]

Using(static, name) == [static |-> static, name |-> name]

UsingChoices ==
    { { Using(FALSE, <<"System">>), Using(FALSE, <<"System", "IO">>),
        Using(TRUE, <<"System", "Math">>) },
      { Using(FALSE, <<"Microsoft", "Extensions">>), Using(FALSE, <<"System">>) } }

DepDirs == { <<>>, <<N_src>>, <<N_obj>>, <<N_src, N_obj>> }

DepFileChoices ==
    { [path |-> Join(JoinAll(N_p, d), n \o CSPROJ), readable |-> TRUE, lines |-> <<>>,
       doc |-> doc, usings |-> {}] :
        d \in DepDirs, n \in {N_App, N_Lib},
        doc \in {DocTwoPackagesOneReference, DocSparse, Malformed} }
    \cup
    { [path |-> Join(JoinAll(N_p, d), N_x_cs), readable |-> r, lines |-> <<>>,
       doc |-> NoDoc, usings |-> u] :
        d \in DepDirs, r \in BOOLEAN, u \in UsingChoices }

InitDeps ==
    /\ InitRun(<<"f","i","n","d","_","d","e","p","e","n","d","e","n","c","i","e","s",
                 ".","p","y">>, <<>>)
    /\ \E order \in Orders :
         \E files \in {q \in SetsUpTo(DepFileChoices, MaxDepFiles) : DistinctPaths(q)} :
            /\ fs = [dirs |-> DirsOf(N_p, files), files |-> files, order |-> order]
            /\ argv \in ArgvChoices(N_p, files)

NextDeps == DepMain \/ DepExtract \/ DepAnalyze \/ DepExit

SpecDeps == InitDeps /\ [][NextDeps]_vars

----------------------------------------------------------------------------
(* The properties.                                                          *)

RECURSIVE Split(_)
\* the components of a path
Split(p) ==
    LET i == Find(p, <<SLASH>>, 1)
    IN  IF i = 0 THEN <<p>>
        ELSE <<SubSeq(p, 1, i - 1)>> \o Split(SubSeq(p, i + 1, Len(p)))

\* the names of the directories on a path to a file
DirComponents(p) == {Split(p)[i] : i \in 1..(Len(Split(p)) - 1)}

\* the path of a file below the directory given on the command line
BelowRoot(p) == SubSeq(p, Len(argv[2]) + 2, Len(p))

ExcludedNames ==
    { <<"o","b","j">>, <<"b","i","n">>, <<".","v","s">>,
      <<"n","o","d","e","_","m","o","d","u","l","e","s">> }

RECURSIVE SumLen(_)
SumLen(d) == IF d = <<>> THEN 0 ELSE Len(Head(d).val) + SumLen(Tail(d))

\* d maps every key to the issues of that key, in the order of the list
IsPartition(d, issues, KeyOf(_)) ==
    /\ \A i, j \in 1..Len(d) : d[i].key = d[j].key => i = j
    /\ \A i \in 1..Len(d) :
          /\ d[i].val # <<>>
          /\ d[i].val = SelectSeq(issues, LAMBDA x : KeyOf(x) = d[i].key)
    /\ \A n \in 1..Len(issues) : \E i \in 1..Len(d) : d[i].key = KeyOf(issues[n])
    /\ SumLen(d) = Len(issues)

\* C1: each of the three groupings maps every key to exactly the issues of the
\* input that have that key, in input order: no issue is dropped or duplicated,
\* no group is empty, and the group lengths sum to the length of the input.
C1_GroupingsPartition ==
    pc = "returned" =>
        /\ IsPartition(grouped.by_severity, all_issues, LAMBDA x : x.severity)
        /\ IsPartition(grouped.by_type, all_issues, LAMBDA x : x.issue_type)
        /\ IsPartition(grouped.by_file, all_issues, LAMBDA x : x.filepath)

\* a list with an issue occurring twice, not side by side, grouped into several
\* types, severities and files
C1_Witness ==
    /\ pc = "returned"
    /\ \E i, j \in 1..Len(all_issues) : j > i + 1 /\ all_issues[i] = all_issues[j]
    /\ Len(grouped.by_type) >= 2
    /\ Len(grouped.by_severity) >= 2
    /\ Len(grouped.by_file) >= 2

\* the file scan_file is called on passes its three tests and opens
Scanned(path) ==
    /\ IsFile(path)
    /\ ~\E part \in IgnoredParts : Contains(path, part)
    /\ Lower(SplitExt(path)) \in Extensions
    /\ FileAt(path).readable

\* C2: for a file that exists, is eligible and not excluded, scan_file returns,
\* for every line n and every rule matching that line, exactly one Issue with
\* that path, line number n and the rule's type, description and severity, and
\* nothing else: a line matching k rules gives k Issues, a line matching none
\* gives none.
C2_OneIssuePerMatch ==
    (pc = "returned" /\ Scanned(argv[1])) =>
        LET lines == FileAt(argv[1]).lines
            At(n) == SelectSeq(result.issues, LAMBDA x : x.line_number = n)
        IN  /\ ~result.raised
            /\ \A i \in 1..Len(result.issues) :
                  /\ result.issues[i].filepath = argv[1]
                  /\ result.issues[i].line_number \in 1..Len(lines)
            /\ \A n \in 1..Len(lines) :
                  /\ Len(At(n)) = Cardinality(lines[n])
                  /\ \E f \in [1..Len(At(n)) -> lines[n]] :
                        /\ \A i, j \in 1..Len(At(n)) : f[i] = f[j] => i = j
                        /\ \A i \in 1..Len(At(n)) : At(n)[i] = Issue(argv[1], n, f[i])

\* a scanned file with a line matching no rule and a line matching two
C2_Witness ==
    /\ pc = "returned"
    /\ Scanned(argv[1])
    /\ \E n, m \in 1..Len(FileAt(argv[1]).lines) :
          /\ FileAt(argv[1]).lines[n] = {}
          /\ Cardinality(FileAt(argv[1]).lines[m]) = 2
    /\ Len(result.issues) = 2

\* C3: scan_directory never descends into a directory named obj, bin, .vs or
\* node_modules, at any depth below the root, and no Issue has a path inside
\* such a directory.
C3_NeverDescendsIntoExcluded ==
    /\ \A d \in visited \cup {stack[i] : i \in 1..Len(stack)} :
          d # argv[2] => Basename(d) \notin ExcludedNames
    /\ \A i \in 1..Len(all_issues) :
          DirComponents(all_issues[i].filepath) \cap ExcludedNames = {}

\* a finished scan with findings, of a tree that holds a readable source file in
\* a directory named bin whose parent was walked
C3_Witness ==
    /\ pc = "exited"
    /\ exitcode = 0
    /\ all_issues # <<>>
    /\ \E f \in fs.files :
          /\ f.readable
          /\ EndsWith(f.path, CS)
          /\ Basename(Dirname(f.path)) = N_bin
          /\ Dirname(Dirname(f.path)) \in visited
          /\ Dirname(Dirname(f.path)) # argv[2]

\* C4: exclusion is by whole directory name: every readable file of an eligible
\* extension whose directories below the root all have non-excluded names has
\* its matching lines reported, also when such a name (robin) only contains an
\* excluded name.
C4_ExclusionByWholeName ==
    (pc = "exited" /\ exitcode = 0) =>
        \A f \in fs.files :
            ( /\ f.readable
              /\ Lower(SplitExt(f.path)) \in Extensions
              /\ DirComponents(BelowRoot(f.path)) \cap ExcludedNames = {} )
            => \A n \in 1..Len(f.lines) : \A r \in f.lines[n] :
                  \E i \in 1..Len(all_issues) : all_issues[i] = Issue(f.path, n, r)

\* C5: a file that cannot be read is skipped and the scan goes on: the run of a
\* directory ends with the report printed and exit code 0, the unreadable file
\* contributes nothing and the findings of the files that scan_file accepts are
\* all reported.
C5_ReadFailureIsolated ==
    (pc \in {"exited", "crashed"} /\ Len(argv) = 2 /\ IsDir(argv[2])) =>
        /\ pc = "exited"
        /\ exitcode = 0
        /\ out # <<>>
        /\ \A f \in fs.files : \A i \in 1..Len(all_issues) :
              ~f.readable => all_issues[i].filepath # f.path
        /\ \A f \in fs.files : Scanned(f.path) =>
              \A n \in 1..Len(f.lines) : \A r \in f.lines[n] :
                  \E i \in 1..Len(all_issues) : all_issues[i] = Issue(f.path, n, r)

\* C9: the outcome is fixed by the arguments: a wrong argument count gives the
\* usage message and exit code 1, an argument that is not a directory gives the
\* error message and exit code 1, both without any report or scan; a directory
\* gives the report and exit code 0 whatever the tree holds, and an empty one
\* exactly the line 'No issues found!'.
C9_OutcomeFixedByArguments ==
    pc \in {"exited", "crashed"} =>
        /\ Len(argv) # 2 =>
              /\ exitcode = 1
              /\ out = <<Line("usage", argv[1], 0, "Usage: <directory>")>>
              /\ visited = {}
        /\ (Len(argv) = 2 /\ ~IsDir(argv[2])) =>
              /\ exitcode = 1
              /\ out = <<Line("error", argv[2], 0, "Error: is not a directory")>>
              /\ visited = {}
        /\ (Len(argv) = 2 /\ IsDir(argv[2])) =>
              /\ pc = "exited"
              /\ exitcode = 0
              /\ prog[1] = "c" => out # <<>>
              /\ (prog[1] = "c" /\ fs.files = {}) =>
                    out = <<Line("none", <<>>, 0, "No issues found!")>>

\* C10: of n high severity issues the listing prints the first min(n, 10), in
\* order, as path, line and description; one trailer giving n - 10 follows when
\* n > 10, none when n <= 10; the section is left out when n = 0.
C10_HighListingTruncated ==
    pc = "returned" =>
        LET high == SelectSeq(all_issues, LAMBDA x : x.severity = "high")
            n == Len(high)
            entries == SelectSeq(out, LAMBDA l : l.k = "high")
            trailers == SelectSeq(out, LAMBDA l : l.k = "more")
            titles == SelectSeq(out, LAMBDA l : l.text = "High Severity Issues:")
        IN  /\ Len(entries) = IF n < 10 THEN n ELSE 10
            /\ \A i \in 1..Len(entries) :
                  entries[i] = Line("high", high[i].filepath, high[i].line_number,
                                    high[i].description)
            /\ n > 10 => trailers = <<Line("more", <<>>, n - 10, "")>>
            /\ n <= 10 => trailers = <<>>
            /\ Len(titles) = IF n = 0 THEN 0 ELSE 1
            /\ \A i \in 1..Len(out) : out[i].k = "more" => out[i - 1].k = "high"

\* fifteen high severity issues: ten entries and a trailer of five more
C10_Witness ==
    /\ pc = "returned"
    /\ Len(SelectSeq(all_issues, LAMBDA x : x.severity = "high")) = 15
    /\ Len(SelectSeq(out, LAMBDA l : l.k = "high")) = 10
    /\ \E i \in 1..Len(out) : out[i] = Line("more", <<>>, 5, "")

----------------------------------------------------------------------------
(* The properties of find_dependencies.py.                                  *)

Manifests == {f \in fs.files : EndsWith(f.path, CSPROJ)}
SourceFiles == {f \in fs.files : EndsWith(f.path, CS)}

\* a path with its directory and its extension stripped
BareName(p) == SubSeq(Basename(p), 1, Len(Basename(p)) - Len(SplitExt(Basename(p))))

\* the package and project references a manifest declares, as they are to be
\* printed; none for a manifest that does not parse
DeclaredPackages(m) ==
    LET refs == SelectSeq(m.doc.elems, LAMBDA e : e.tag = "PackageReference")
    IN  [i \in 1..Len(refs) |-> Line("package", refs[i].Include, 0, refs[i].Version)]

DeclaredReferences(m) ==
    LET refs == SelectSeq(m.doc.elems,
                          LAMBDA e : e.tag = "ProjectReference" /\ Truthy(e.Include))
    IN  [i \in 1..Len(refs) |-> Line("reference", BareName(refs[i].Include), 0, "")]

\* the report of a manifest: its project name, its packages, its references
EntryOf(m) ==
    <<Line("project", BareName(m.path), 0, "Analyzing project:")>>
    \o (IF DeclaredPackages(m) # <<>>
        THEN <<Line("packages", <<>>, Len(DeclaredPackages(m)), "Package Dependencies")>>
             \o DeclaredPackages(m)
        ELSE <<Line("no_packages", <<>>, 0, "No NuGet package dependencies")>>)
    \o (IF DeclaredReferences(m) # <<>>
        THEN <<Line("references", <<>>, Len(DeclaredReferences(m)), "Project References")>>
             \o DeclaredReferences(m)
        ELSE <<Line("no_references", <<>>, 0, "No project references")>>)

Reported(m) ==
    \E i \in 1..Len(out) :
        /\ i + Len(EntryOf(m)) - 1 <= Len(out)
        /\ SubSeq(out, i, i + Len(EntryOf(m)) - 1) = EntryOf(m)

\* the places of the 'Analyzing project' lines in the output
ProjectStarts == SelectSeq([i \in 1..Len(out) |-> i], LAMBDA i : out[i].k = "project")

\* the lines of the k-th project of the output
Block(k) ==
    SubSeq(out, ProjectStarts[k],
           IF k < Len(ProjectStarts) THEN ProjectStarts[k + 1] - 1 ELSE Len(out))

\* the usings, other than static ones, of the readable source files below dir
UsingsBelow(dir) ==
    UNION { {u.name : u \in {v \in f.usings : ~v.static}} :
              f \in {g \in SourceFiles :
                       /\ g.readable
                       /\ Len(g.path) > Len(dir)
                       /\ SubSeq(g.path, 1, Len(dir) + 1) = dir \o <<SLASH>>} }

\* C6: a manifest that does not parse gives a printed diagnostic and empty
\* lists for its project, the other manifests are reported with their own
\* references, and the exit code is 0.  (The manifests that parse have distinct
\* project names here, so that each would be reported for itself if the
\* malformed ones were absent.)
C6_MalformedManifestIsolated ==
    ( /\ pc = "exited"
      /\ Len(argv) = 2 /\ IsDir(argv[2])
      /\ \E m \in Manifests : ~m.doc.ok
      /\ \A m, n \in Manifests :
            (m.doc.ok /\ n.doc.ok /\ BareName(m.path) = BareName(n.path)) => m = n )
    =>
        /\ exitcode = 0
        /\ \A m \in Manifests :
              /\ Reported(m)
              /\ ~m.doc.ok =>
                    \E i \in 1..Len(out) :
                        out[i] = Line("parse_error", m.path, 0, "Error parsing")

\* C7: every manifest under the root is reported with exactly its package and
\* project references under the project name of its path, and each manifest
\* has an entry of its own.
C7_EveryManifestReported ==
    (pc = "exited" /\ Len(argv) = 2 /\ IsDir(argv[2])) =>
        /\ \A m \in Manifests : Reported(m)
        /\ Len(ProjectStarts) = Cardinality(Manifests)

\* C8 as stated: the lister never walks a directory named obj, bin, .vs or
\* node_modules, and reports no project from inside one.
C8_ListerSkipsExcluded ==
    /\ \A d \in visited : d # argv[2] => Basename(d) \notin ExcludedNames
    /\ \A i \in 1..Len(project_directories) :
          DirComponents(BelowRoot(Join(project_directories[i].val, N_x_cs)))
              \cap ExcludedNames = {}

\* C8, amended: find_csproj_files and find_cs_files_in_project descend into
\* every directory, those named obj, bin, .vs and node_modules included: every
\* directory below the root is walked, every manifest is listed as a project,
\* and the namespaces of a project count the usings of every readable source
\* file below its directory.
C8_ListerWalksEveryDirectory ==
    /\ (pc = "run" \/ (pc = "exited" /\ exitcode = 0)) =>
          /\ fs.dirs \subseteq visited
          /\ \A m \in Manifests :
                \/ \E i \in 1..Len(csproj_files) : csproj_files[i] = m.path
                \/ \E i \in 1..Len(project_directories) :
                      /\ project_directories[i].key = BareName(m.path)
                      /\ \E n \in Manifests :
                            /\ BareName(n.path) = BareName(m.path)
                            /\ project_directories[i].val = Dirname(n.path)
    /\ (pc = "exited" /\ exitcode = 0) =>
          /\ Len(ProjectStarts) = Len(project_directories)
          /\ \A k \in 1..Len(ProjectStarts) : \A ns \in {"Microsoft", "System"} :
                LET counted == {u \in UsingsBelow(project_directories[k].val) : u[1] = ns}
                    shown == SelectSeq(Block(k),
                                       LAMBDA l : l.k = "namespace" /\ l.text = ns)
                IN  IF counted = {} THEN shown = <<>>
                    ELSE shown = <<Line("namespace", <<>>, Cardinality(counted), ns)>>

\* a finished run over a tree with a manifest and a readable source file with
\* usings, both inside a directory named obj, the project reported and the
\* namespaces of the file counted
C8_Witness ==
    /\ pc = "exited"
    /\ exitcode = 0
    /\ \E m \in Manifests, c \in SourceFiles :
          /\ Basename(Dirname(m.path)) = N_obj
          /\ Dirname(c.path) = Dirname(m.path)
          /\ c.readable
          /\ Reported(m)
          /\ \E i \in 1..Len(out) : out[i].k = "namespace" /\ out[i].n = 2

====
